---------------------------- MODULE Spec2Model ----------------------------
(***************************************************************************)
(* Model of threshold.py: the four pixel classifiers abs_threshold,        *)
(* mag_threshold, dir_threshold, hls_threshold and combined_threshold.     *)
(*                                                                         *)
(* An image is a record [h, w, px] whose px[row][col] (1-based) holds the  *)
(* pixel's three 8-bit channels <<c0, c1, c2>> in the order the code       *)
(* indexes them (cv2 reads them as B, G, R).  A field or a mask of an      *)
(* image is indexed the same way, f[row][col].                             *)
(*                                                                         *)
(* The cv2 / numpy calls are modelled by what they compute on 8-bit input: *)
(*   cv2.cvtColor(.., COLOR_BGR2GRAY)  fixed-point luma, rounded           *)
(*   cv2.cvtColor(.., COLOR_BGR2HLS)   saturation channel, rounded         *)
(*   cv2.Sobel(gray, CV_64F, dx, dy)   3x3 kernel, BORDER_REFLECT_101      *)
(*   np.uint8(float) / astype(uint8)   truncation; NaN has no defined cast *)
(* Sobel results are integers, so abs_threshold is exact integer           *)
(* arithmetic.  mag_threshold goes through sqrt and two divisions in       *)
(* IEEE-754 doubles; MagScaled gives the truncated result.  Angles of      *)
(* dir_threshold are kept as direction vectors <<y, x>> in the first       *)
(* quadrant and compared by cross product.                                 *)
(***************************************************************************)
EXTENDS Integers, FiniteSets, Sequences, TLC

VARIABLES
    img,              \* the array the caller passes
    input,            \* its contents when the caller passed it
    pc,               \* "start", "returned", a line of combined_threshold, "done"
    call,             \* the function called and its arguments
    ret,              \* what a classifier called on its own handed back
    abs_thresh, mag_thresh, dir_thresh, hls_thresh, combined_output,
                      \* the locals of combined_threshold
    in_source_order,  \* the classifier calls so far ran in the order of lines 93-96
    zerodiv           \* a rescale divided by zero

vars == <<img, input, pc, call, ret,
          abs_thresh, mag_thresh, dir_thresh, hls_thresh, combined_output,
          in_source_order, zerodiv>>

(***************************************************************************)
(* Bounds of the input domain.                                             *)
(***************************************************************************)
MaxH == 4

MaxW == 4

(***************************************************************************)
(* Input images: every image of up to MaxH x MaxW pixels that shows one    *)
(* rectangle of a colour on a darker or equally dark background (or the    *)
(* background alone), and the 4x4 vertical-edge image.  Black, White and   *)
(* Red are the extremes of intensity and saturation; Moss has Red's grey   *)
(* level 76 and saturation 170.  The three pairs of tones give a full      *)
(* contrast edge without colour, an edge between a saturated and an        *)
(* unsaturated colour, and two colours of one grey level.                  *)
(***************************************************************************)
Black == <<0, 0, 0>>

White == <<255, 255, 255>>

Red == <<0, 0, 255>>

Moss == <<20, 100, 50>>

Palette == {Black, White, Red, Moss}

Pixels(image) == (1..image.h) \X (1..image.w)

(***************************************************************************)
(* cv2.cvtColor(img, cv2.COLOR_BGR2GRAY) on one 8-bit pixel: the luma      *)
(* 0.114 B + 0.587 G + 0.299 R in 14-bit fixed point, rounded.             *)
(***************************************************************************)
BGR2GRAY(c) == (c[1] * 1868 + c[2] * 9617 + c[3] * 4899 + 8192) \div 16384

(***************************************************************************)
(* An h x w array holding elem(r, c) at row r, column c.  (@@ << >> leaves *)
(* a function as it is; TLC then tabulates it once instead of evaluating   *)
(* elem again at every access.)                                            *)
(***************************************************************************)
Array(h, w, elem(_, _)) ==
    [r \in 1..h |-> [c \in 1..w |-> elem(r, c)] @@ << >>] @@ << >>

Rect(h, w, rows, cols, dark, bright) ==
    LET colour(r, c) == IF r \in rows /\ c \in cols THEN bright ELSE dark
    IN  [h |-> h, w |-> w, px |-> Array(h, w, colour)]

Tones == {<<Black, White>>, <<Red, White>>, <<Moss, Red>>}

Spans(n) == {{}} \cup { a..b : a \in 1..n, b \in 1..n }

EdgeImage == Rect(4, 4, 1..4, 3..4, Black, White)

Images ==
    {EdgeImage} \cup
    UNION { UNION { { Rect(h, w, rows, cols, tones[1], tones[2]) :
                        rows \in Spans(h), cols \in Spans(w), tones \in Tones }
                    : w \in 1..MaxW }
            : h \in 1..MaxH }

gray(image) ==
    LET luma(r, c) == BGR2GRAY(image.px[r][c])
    IN  Array(image.h, image.w, luma)

(***************************************************************************)
(* cv2.cvtColor(img, cv2.COLOR_BGR2HLS)[:, :, 2] on one 8-bit pixel:       *)
(* S = (max - min) / (max + min) when L < 1/2, (max - min) / (2 - max -    *)
(* min) otherwise (channels scaled to [0, 1]), 0 for a grey pixel,         *)
(* written back as round(255 S).                                           *)
(***************************************************************************)
Max3(c) == CHOOSE m \in {c[1], c[2], c[3]} : \A v \in {c[1], c[2], c[3]} : m >= v

Min3(c) == CHOOSE m \in {c[1], c[2], c[3]} : \A v \in {c[1], c[2], c[3]} : m <= v

RoundDiv(n, d) ==
    LET q == n \div d
        r == n % d
    IN  IF 2 * r > d \/ (2 * r = d /\ q % 2 = 1) THEN q + 1 ELSE q

BGR2HLS_S(c) ==
    LET vmax == Max3(c)
        vmin == Min3(c)
        diff == vmax - vmin
        sum  == vmax + vmin
    IN  IF diff = 0 THEN 0
        ELSE IF sum < 255 THEN RoundDiv(255 * diff, sum)
        ELSE RoundDiv(255 * diff, 510 - sum)

s_channel(image) ==
    LET sat(r, c) == BGR2HLS_S(image.px[r][c])
    IN  Array(image.h, image.w, sat)

(***************************************************************************)
(* cv2.Sobel(gray, cv2.CV_64F, dx, dy) with the default 3x3 kernel and     *)
(* the default border BORDER_REFLECT_101 (index 0 reads index 2, index     *)
(* n+1 reads index n-1; a single row or column reads itself).              *)
(***************************************************************************)
Reflect101(i, n) ==
    IF n = 1 THEN 1
    ELSE IF i < 1 THEN 2 - i
    ELSE IF i > n THEN 2 * n - i
    ELSE i

At(g, image, r, c) == g[Reflect101(r, image.h)][Reflect101(c, image.w)]

SobelX_forward(g, image) ==
    LET dx(r, c) ==
            (At(g, image, r - 1, c + 1) - At(g, image, r - 1, c))
            + 2 * (At(g, image, r, c + 1) - At(g, image, r, c))
            + (At(g, image, r + 1, c + 1) - At(g, image, r + 1, c))
    IN  Array(image.h, image.w, dx)

SobelX(g, image) ==
    LET dx(r, c) ==
            (At(g, image, r - 1, c + 1) - At(g, image, r - 1, c - 1))
            + 2 * (At(g, image, r, c + 1) - At(g, image, r, c - 1))
            + (At(g, image, r + 1, c + 1) - At(g, image, r + 1, c - 1))
    IN  Array(image.h, image.w, dx)

SobelY(g, image) ==
    LET dy(r, c) ==
            (At(g, image, r + 1, c - 1) - At(g, image, r - 1, c - 1))
            + 2 * (At(g, image, r + 1, c) - At(g, image, r - 1, c))
            + (At(g, image, r + 1, c + 1) - At(g, image, r - 1, c + 1))
    IN  Array(image.h, image.w, dy)

np_absolute(v) == IF v < 0 THEN -v ELSE v

np_max(f) ==
    LET values == UNION { {f[r][c] : c \in DOMAIN f[r]} : r \in DOMAIN f }
    IN  CHOOSE m \in values : \A v \in values : m >= v

(***************************************************************************)
(* A mask: binary_output = np.zeros_like(field), then 1 stored where the   *)
(* condition holds.                                                        *)
(***************************************************************************)
Mask(image, hit(_, _)) ==
    LET bit(r, c) == IF hit(r, c) THEN 1 ELSE 0
    IN  Array(image.h, image.w, bit)

(***************************************************************************)
(* What a call hands back: a mask, or the exception that ended it.         *)
(***************************************************************************)
NoMask == <<>>

Returned(mask) == [kind |-> "mask", mask |-> mask, exc |-> ""]

Raised(exc) == [kind |-> "raise", mask |-> NoMask, exc |-> exc]

NoReturn == [kind |-> "none", mask |-> NoMask, exc |-> ""]

(***************************************************************************)
(* np.uint8(NaN): 0/0 is NaN in numpy (a warning, no exception) and the    *)
(* cast of NaN to an 8-bit integer is undefined in C.  Builds of numpy     *)
(* produce 0 (scalar and AVX2 x86-64, AArch64) or 255 (unsigned AVX-512    *)
(* conversion); the caller picks one per cast.                             *)
(***************************************************************************)
NanCast == {0, 255}

(***************************************************************************)
(* abs_threshold, lines 7-26.  Neither if assigns abs_sobel for an orient  *)
(* other than 'x' and 'y'; reading the unbound local on line 20 raises     *)
(* UnboundLocalError.                                                      *)
(***************************************************************************)
Unbound == << >>

abs_sobel_else(image, orient) ==
    LET sobel == IF orient = "x" THEN SobelX(gray(image), image)
                 ELSE SobelY(gray(image), image)
        absolute(r, c) == np_absolute(sobel[r][c])
    IN  Array(image.h, image.w, absolute)

abs_sobel(image, orient) ==
    LET sobel == IF orient = "x" THEN SobelX(gray(image), image)
                 ELSE SobelY(gray(image), image)
        absolute(r, c) == np_absolute(sobel[r][c])
    IN  IF orient = "x" \/ orient = "y"
        THEN Array(image.h, image.w, absolute)
        ELSE Unbound

scaled_sobel(image, field, nan) ==
    LET m == np_max(field)
        scaled(r, c) == IF m = 0 THEN nan ELSE (255 * field[r][c]) \div m
    IN  Array(image.h, image.w, scaled)

abs_in_range_excl(v, thresh) == v > thresh[1] /\ v < thresh[2]

abs_in_range(v, thresh) == v >= thresh[1] /\ v <= thresh[2]

abs_threshold(image, orient, thresh, nan) ==
    LET sobel  == abs_sobel(image, orient)
        scaled == scaled_sobel(image, sobel, nan)
        hit(r, c) == abs_in_range(scaled[r][c], thresh)
    IN  IF DOMAIN sobel = {} THEN Raised("UnboundLocalError")
        ELSE Returned(Mask(image, hit))

abs_divides_by_zero(image, orient) ==
    LET sobel == abs_sobel(image, orient)
    IN  DOMAIN sobel # {} /\ np_max(sobel) = 0

(***************************************************************************)
(* mag_threshold, lines 29-48.  gradmag is kept squared: sq[r][c] is       *)
(* sobelx**2 + sobely**2, an integer.  With s = sq[r][c], M = max sq, the  *)
(* code computes trunc(sqrt(s) / (sqrt(M) / 255)) in doubles.  The exact   *)
(* quotient 255 sqrt(s/M) truncates to the largest v with                  *)
(* v*v*M <= 255*255*s (FloorRoot, after cancelling the common factor of s  *)
(* and M); the double evaluation differs only where the exact              *)
(* quotient is an integer and the rounded one falls just below it, which   *)
(* on the gradients of the input images is the table RoundsBelow.          *)
(***************************************************************************)
RECURSIVE GCD(_, _)
GCD(a, b) == IF b = 0 THEN a ELSE GCD(b, a % b)

RECURSIVE FloorRoot(_, _, _, _)
FloorRoot(n, d, lo, hi) ==
    IF lo = hi THEN lo
    ELSE LET mid == (lo + hi + 1) \div 2
         IN  IF mid * mid * d <= n THEN FloorRoot(n, d, mid, hi)
             ELSE FloorRoot(n, d, lo, mid - 1)

RoundsBelow ==
    { <<320410, 320410>>, <<576738, 576738>>, <<325125, 325125>>,
      <<130050, 1170450>>, <<520200, 1170450>>, <<1300500, 1300500>> }

MagScaled(s, M) ==
    LET g  == GCD(M, s)
        s1 == s \div g
        M1 == M \div g
        exact == FloorRoot(65025 * s1, M1, 0, 255)
    IN  IF <<s, M>> \in RoundsBelow THEN exact - 1 ELSE exact

gradmag_sq(image) ==
    LET g  == gray(image)
        sx == SobelX(g, image)
        sy == SobelY(g, image)
        sq(r, c) == sx[r][c] * sx[r][c] + sy[r][c] * sy[r][c]
    IN  Array(image.h, image.w, sq)

gradmag_scaled(image, sq, nan) ==
    LET M == np_max(sq)
        scaled(r, c) == IF M = 0 THEN nan ELSE MagScaled(sq[r][c], M)
    IN  Array(image.h, image.w, scaled)

mag_in_range(v, thresh) == v >= thresh[1] /\ v <= thresh[2]

mag_threshold(image, thresh, nan) ==
    LET gradmag == gradmag_scaled(image, gradmag_sq(image), nan)
        hit(r, c) == mag_in_range(gradmag[r][c], thresh)
    IN  Returned(Mask(image, hit))

mag_divides_by_zero(image) == np_max(gradmag_sq(image)) = 0

(***************************************************************************)
(* dir_threshold, lines 51-69.  np.arctan2(|sobely|, |sobelx|) is kept as  *)
(* the direction <<y, x>> (arctan2(0, 0) = 0 is the direction <<0, 1>>);   *)
(* a threshold is a direction too, and two angles in [0, pi/2] compare as  *)
(* their cross product.  Rad07 and Rad13 stand for 0.7 and 1.3: they are   *)
(* rationals next to tan 0.7 and tan 1.3 that no gradient direction with   *)
(* components up to 1020 separates from them.                              *)
(***************************************************************************)
Rad0 == <<0, 1>>

RadHalfPi == <<1, 0>>

Rad07 == <<1207, 1433>>

Rad13 == <<2399, 666>>

np_arctan2(y, x) == IF y = 0 /\ x = 0 THEN <<0, 1>> ELSE <<y, x>>

AngleLeq(a, b) == a[1] * b[2] <= b[1] * a[2]

absgraddir(image) ==
    LET g  == gray(image)
        sx == SobelX(g, image)
        sy == SobelY(g, image)
        angle(r, c) == np_arctan2(np_absolute(sy[r][c]), np_absolute(sx[r][c]))
    IN  Array(image.h, image.w, angle)

dir_in_range_strict(a, thresh) == ~AngleLeq(a, thresh[1]) /\ AngleLeq(a, thresh[2])

dir_in_range(a, thresh) == AngleLeq(thresh[1], a) /\ AngleLeq(a, thresh[2])

dir_threshold(image, thresh) ==
    LET dir == absgraddir(image)
        hit(r, c) == dir_in_range(dir[r][c], thresh)
    IN  Returned(Mask(image, hit))

(***************************************************************************)
(* hls_threshold, lines 72-85.                                             *)
(***************************************************************************)
hls_in_range_incl(v, thresh) == v >= thresh[1] /\ v <= thresh[2]

hls_in_range(v, thresh) == v > thresh[1] /\ v <= thresh[2]

hls_threshold_raw(image, thresh) ==
    LET s == s_channel(image)
        kept(r, c) == IF hls_in_range(s[r][c], thresh) THEN s[r][c] ELSE 0
    IN  Returned(Array(image.h, image.w, kept))

hls_threshold(image, thresh) ==
    LET s == s_channel(image)
        hit(r, c) == hls_in_range(s[r][c], thresh)
    IN  Returned(Mask(image, hit))

(***************************************************************************)
(* combined_threshold, lines 98-101.  The index expression is parsed by    *)
(* Python with | binding tighter than ==:                                  *)
(*   (abs_thresh == (1 | ((mag_thresh == 1) & (dir_thresh == 1)))          *)
(*      | hls_thresh) == 1                                                 *)
(* on elements: booleans are 0/1 under the bitwise operators.              *)
(***************************************************************************)
Bool(b) == IF b THEN 1 ELSE 0

BitAnd01(a, b) == IF a = 1 /\ b = 1 THEN 1 ELSE 0

BitOr01(a, b) == IF a = 1 \/ b = 1 THEN 1 ELSE 0

combine_pixel_intended(a, m, d, s) == a = 1 \/ (m = 1 /\ d = 1) \/ s = 1

combine_pixel(a, m, d, s) ==
    BitOr01(Bool(a = BitOr01(1, BitAnd01(Bool(m = 1), Bool(d = 1)))), s) = 1

combine(a, m, d, s) ==
    LET hit(r, c) == combine_pixel(a[r][c], m[r][c], d[r][c], s[r][c])
    IN  [r \in DOMAIN s |-> [c \in DOMAIN s[r] |-> IF hit(r, c) THEN 1 ELSE 0]]

(***************************************************************************)
(* The argument array after a classifier has returned.  Every classifier   *)
(* works on arrays it allocates (cvtColor, Sobel, zeros_like); no          *)
(* statement stores into img.                                              *)
(***************************************************************************)
img_after_inplace(image) ==
    LET zero(r, c) == <<0, 0, 0>>
    IN  [image EXCEPT !.px = Array(image.h, image.w, zero)]

img_after(image) == image

(***************************************************************************)
(* Arguments the classifiers are called with.                              *)
(***************************************************************************)
Orients == {"x", "y", "z"}

AbsThreshes == {<<20, 100>>, <<127, 255>>}

MagThreshes == {<<30, 100>>, <<127, 255>>}

DirThreshes == {<<Rad0, RadHalfPi>>, <<Rad07, Rad13>>}

HlsThreshes == {<<100, 255>>, <<170, 255>>}

NoCall == [fn |-> "none", orient |-> "", thresh |-> <<>>]

Init ==
    /\ img \in Images
    /\ input = img
    /\ pc = "start"
    /\ call = NoCall
    /\ ret = NoReturn
    /\ abs_thresh = NoMask
    /\ mag_thresh = NoMask
    /\ dir_thresh = NoMask
    /\ hls_thresh = NoMask
    /\ combined_output = NoMask
    /\ in_source_order = TRUE
    /\ zerodiv = FALSE

masks == <<abs_thresh, mag_thresh, dir_thresh, hls_thresh, combined_output>>

(***************************************************************************)
(* A caller invokes one classifier on its own.                             *)
(***************************************************************************)
CallAbs ==
    /\ pc = "start"
    /\ \E orient \in Orients, thresh \in AbsThreshes :
          /\ call' = [fn |-> "abs_threshold", orient |-> orient, thresh |-> thresh]
          /\ zerodiv' = abs_divides_by_zero(img, orient)
          /\ \E nan \in NanCast : ret' = abs_threshold(img, orient, thresh, nan)
    /\ img' = img_after(img)
    /\ pc' = "returned"
    /\ UNCHANGED <<input, masks, in_source_order>>

CallMag ==
    /\ pc = "start"
    /\ zerodiv' = mag_divides_by_zero(img)
    /\ \E thresh \in MagThreshes :
          /\ call' = [fn |-> "mag_threshold", orient |-> "", thresh |-> thresh]
          /\ \E nan \in NanCast : ret' = mag_threshold(img, thresh, nan)
    /\ img' = img_after(img)
    /\ pc' = "returned"
    /\ UNCHANGED <<input, masks, in_source_order>>

CallDir ==
    /\ pc = "start"
    /\ \E thresh \in DirThreshes :
          /\ call' = [fn |-> "dir_threshold", orient |-> "", thresh |-> thresh]
          /\ ret' = dir_threshold(img, thresh)
    /\ img' = img_after(img)
    /\ pc' = "returned"
    /\ UNCHANGED <<input, masks, in_source_order, zerodiv>>

CallHls ==
    /\ pc = "start"
    /\ \E thresh \in HlsThreshes :
          /\ call' = [fn |-> "hls_threshold", orient |-> "", thresh |-> thresh]
          /\ ret' = hls_threshold(img, thresh)
    /\ img' = img_after(img)
    /\ pc' = "returned"
    /\ UNCHANGED <<input, masks, in_source_order, zerodiv>>

(***************************************************************************)
(* combined_threshold, one action per statement, lines 93-103.             *)
(***************************************************************************)
CombinedCall == [fn |-> "combined_threshold", orient |-> "", thresh |-> <<>>]

Line93 ==
    /\ pc = "start"
    /\ call' = CombinedCall
    /\ zerodiv' = abs_divides_by_zero(img, "x")
    /\ \E nan \in NanCast : abs_thresh' = abs_threshold(img, "x", <<20, 100>>, nan).mask
    /\ img' = img_after(img)
    /\ UNCHANGED in_source_order
    /\ pc' = "94"
    /\ UNCHANGED <<input, ret, mag_thresh, dir_thresh, hls_thresh, combined_output>>

Line94 ==
    /\ pc = "94"
    /\ zerodiv' = (zerodiv \/ mag_divides_by_zero(img))
    /\ \E nan \in NanCast : mag_thresh' = mag_threshold(img, <<30, 100>>, nan).mask
    /\ img' = img_after(img)
    /\ pc' = "95"
    /\ UNCHANGED <<input, call, ret, abs_thresh, dir_thresh, hls_thresh, combined_output,
                   in_source_order>>

Line95 ==
    /\ pc = "95"
    /\ dir_thresh' = dir_threshold(img, <<Rad07, Rad13>>).mask
    /\ img' = img_after(img)
    /\ pc' = "96"
    /\ UNCHANGED <<input, call, ret, abs_thresh, mag_thresh, hls_thresh, combined_output,
                   in_source_order, zerodiv>>

Line96 ==
    /\ pc = "96"
    /\ hls_thresh' = hls_threshold(img, <<170, 255>>).mask
    /\ img' = img_after(img)
    /\ pc' = "99"
    /\ UNCHANGED <<input, call, ret, abs_thresh, mag_thresh, dir_thresh, combined_output,
                   in_source_order, zerodiv>>

Line99 ==
    /\ pc = "99"
    /\ combined_output' = combine(abs_thresh, mag_thresh, dir_thresh, hls_thresh)
    /\ pc' = "done"
    /\ UNCHANGED <<img, input, call, ret, abs_thresh, mag_thresh, dir_thresh, hls_thresh,
                   in_source_order, zerodiv>>

Next ==
    \/ CallAbs
    \/ CallMag
    \/ CallDir
    \/ CallHls
    \/ Line93
    \/ Line94
    \/ Line95
    \/ Line96
    \/ Line99

Spec == Init /\ [][Next]_vars

(***************************************************************************)
(* combined_threshold with its four classifier calls taken in any order    *)
(* (section 5 of the design allows them to run as independent tasks); the  *)
(* combination waits for all four.                                         *)
(***************************************************************************)
Pending(mask) == pc \in {"start", "tasks"} /\ mask = NoMask

After(earlier) == in_source_order /\ earlier # NoMask

TaskAbs ==
    /\ Pending(abs_thresh)
    /\ zerodiv' = (zerodiv \/ abs_divides_by_zero(img, "x"))
    /\ \E nan \in NanCast : abs_thresh' = abs_threshold(img, "x", <<20, 100>>, nan).mask
    /\ img' = img_after(img)
    /\ UNCHANGED in_source_order
    /\ call' = CombinedCall
    /\ pc' = "tasks"
    /\ UNCHANGED <<input, ret, mag_thresh, dir_thresh, hls_thresh, combined_output>>

TaskMag ==
    /\ Pending(mag_thresh)
    /\ zerodiv' = (zerodiv \/ mag_divides_by_zero(img))
    /\ \E nan \in NanCast : mag_thresh' = mag_threshold(img, <<30, 100>>, nan).mask
    /\ img' = img_after(img)
    /\ in_source_order' = After(abs_thresh)
    /\ call' = CombinedCall
    /\ pc' = "tasks"
    /\ UNCHANGED <<input, ret, abs_thresh, dir_thresh, hls_thresh, combined_output>>

TaskDir ==
    /\ Pending(dir_thresh)
    /\ dir_thresh' = dir_threshold(img, <<Rad07, Rad13>>).mask
    /\ img' = img_after(img)
    /\ in_source_order' = After(mag_thresh)
    /\ call' = CombinedCall
    /\ pc' = "tasks"
    /\ UNCHANGED <<input, ret, abs_thresh, mag_thresh, hls_thresh, combined_output, zerodiv>>

TaskHls ==
    /\ Pending(hls_thresh)
    /\ hls_thresh' = hls_threshold(img, <<170, 255>>).mask
    /\ img' = img_after(img)
    /\ in_source_order' = After(dir_thresh)
    /\ call' = CombinedCall
    /\ pc' = "tasks"
    /\ UNCHANGED <<input, ret, abs_thresh, mag_thresh, dir_thresh, combined_output, zerodiv>>

TaskCombine ==
    /\ pc = "tasks"
    /\ NoMask \notin {abs_thresh, mag_thresh, dir_thresh, hls_thresh}
    /\ combined_output' = combine(abs_thresh, mag_thresh, dir_thresh, hls_thresh)
    /\ pc' = "done"
    /\ UNCHANGED <<img, input, call, ret, abs_thresh, mag_thresh, dir_thresh, hls_thresh,
                   in_source_order, zerodiv>>

NextAnyOrder ==
    \/ TaskAbs
    \/ TaskMag
    \/ TaskDir
    \/ TaskHls
    \/ TaskCombine

SpecAnyOrder == Init /\ [][NextAnyOrder]_vars

(***************************************************************************)
(* Properties.                                                             *)
(***************************************************************************)
Rows == 1..img.h

Cols == 1..img.w

IsBinaryMask(m) ==
    /\ DOMAIN m = Rows
    /\ \A r \in Rows : DOMAIN m[r] = Cols
    /\ \A r \in Rows, c \in Cols : m[r][c] \in {0, 1}

AllEqual(m, v) == \A r \in Rows, c \in Cols : m[r][c] = v

Standalone(fn) == pc = "returned" /\ call.fn = fn

(* C1: each of the five masks combined_threshold returns is an H x W grid  *)
(* of the input's size whose every element is 0 or 1.                      *)
C1_MasksAreBinary ==
    pc = "done" =>
        \A m \in {combined_output, abs_thresh, mag_thresh, dir_thresh, hls_thresh} :
            IsBinaryMask(m)

C1_Witness ==
    /\ pc = "done"
    /\ img.h = MaxH /\ img.w = MaxW
    /\ \E r \in Rows, c \in Cols : abs_thresh[r][c] = 1 /\ combined_output[r][c] = 1
    /\ \E r \in Rows, c \in Cols : hls_thresh[r][c] = 1 /\ combined_output[r][c] = 1
    /\ \E r \in Rows, c \in Cols : combined_output[r][c] = 0 /\ dir_thresh[r][c] = 1

(* C2: at every pixel the combined mask is 1 exactly when the abs-gradient *)
(* mask is 1, or the magnitude and direction masks are both 1, or the      *)
(* saturation mask is 1.                                                   *)
C2_IntendedFormula ==
    pc = "done" =>
        \A r \in Rows, c \in Cols :
            combined_output[r][c] = 1 <=>
                \/ abs_thresh[r][c] = 1
                \/ (mag_thresh[r][c] = 1 /\ dir_thresh[r][c] = 1)
                \/ hls_thresh[r][c] = 1

(* C3: hls_threshold sets a pixel exactly when low < saturation <= high:   *)
(* a pixel at low is not set, a pixel at high is set.                      *)
C3_HlsBounds ==
    Standalone("hls_threshold") =>
        LET s == s_channel(img)
            low == call.thresh[1]
            high == call.thresh[2]
        IN  \A r \in Rows, c \in Cols :
               /\ ret.mask[r][c] = 1 <=> (low < s[r][c] /\ s[r][c] <= high)
               /\ s[r][c] = low => ret.mask[r][c] = 0
               /\ (s[r][c] = high /\ low < high) => ret.mask[r][c] = 1

C3_Witness ==
    /\ Standalone("hls_threshold")
    /\ \E r \in Rows, c \in Cols :
          s_channel(img)[r][c] = call.thresh[1] /\ ret.mask[r][c] = 0
    /\ \E r \in Rows, c \in Cols :
          s_channel(img)[r][c] = call.thresh[2] /\ ret.mask[r][c] = 1

(* C4: abs_threshold, mag_threshold and dir_threshold set every pixel      *)
(* whose value (rescaled gradient, rescaled magnitude, angle) equals       *)
(* either bound of the range they were called with.  (Where the rescale    *)
(* divides by zero the value is a cast NaN and the property says nothing.) *)
AngleEq(a, b) == AngleLeq(a, b) /\ AngleLeq(b, a)

C4_InclusiveBounds ==
    (pc = "returned" /\ ret.kind = "mask" /\ ~zerodiv) =>
        /\ call.fn = "abs_threshold" =>
              LET scaled == scaled_sobel(img, abs_sobel(img, call.orient), 0)
              IN  \A r \in Rows, c \in Cols :
                      scaled[r][c] \in {call.thresh[1], call.thresh[2]}
                         => ret.mask[r][c] = 1
        /\ call.fn = "mag_threshold" =>
              LET gradmag == gradmag_scaled(img, gradmag_sq(img), 0)
              IN  \A r \in Rows, c \in Cols :
                      gradmag[r][c] \in {call.thresh[1], call.thresh[2]}
                         => ret.mask[r][c] = 1
        /\ call.fn = "dir_threshold" =>
              LET dir == absgraddir(img)
              IN  \A r \in Rows, c \in Cols :
                      (\/ AngleEq(dir[r][c], call.thresh[1])
                       \/ AngleEq(dir[r][c], call.thresh[2]))
                         => ret.mask[r][c] = 1

C4_Witness ==
    /\ Standalone("abs_threshold") /\ ret.kind = "mask" /\ ~zerodiv
    /\ LET scaled == scaled_sobel(img, abs_sobel(img, call.orient), 0)
       IN  /\ \E r \in Rows, c \in Cols :
                 scaled[r][c] = call.thresh[1] /\ ret.mask[r][c] = 1
           /\ \E r \in Rows, c \in Cols :
                 scaled[r][c] = call.thresh[2] /\ ret.mask[r][c] = 1

(* C5: on an image of one grayscale intensity, each classifier called with *)
(* its default parameters returns the all-zero mask.                       *)
UniformGray == AllEqual(gray(img), gray(img)[1][1])

DefaultCall ==
    \/ call.fn = "abs_threshold" /\ call.orient = "x" /\ call.thresh = <<20, 100>>
    \/ call.fn = "mag_threshold" /\ call.thresh = <<30, 100>>
    \/ call.fn = "dir_threshold" /\ call.thresh = <<Rad0, RadHalfPi>>
    \/ call.fn = "hls_threshold" /\ call.thresh = <<100, 255>>

C5_UniformAllZero ==
    (pc = "returned" /\ DefaultCall /\ UniformGray) => AllEqual(ret.mask, 0)

(* C5 as amended: on such an image the abs-gradient and magnitude masks    *)
(* are all zero, the direction mask is all one (every angle is 0, inside   *)
(* the default [0, pi/2]), and the saturation mask is 1 exactly at the     *)
(* pixels whose saturation exceeds 100.                                    *)
C5_UniformMasks ==
    (pc = "returned" /\ DefaultCall /\ UniformGray) =>
        /\ call.fn \in {"abs_threshold", "mag_threshold"} => AllEqual(ret.mask, 0)
        /\ call.fn = "dir_threshold" => AllEqual(ret.mask, 1)
        /\ call.fn = "hls_threshold" =>
              \A r \in Rows, c \in Cols :
                  ret.mask[r][c] = 1 <=> s_channel(img)[r][c] > 100

C5_Witness ==
    /\ pc = "returned" /\ DefaultCall /\ UniformGray
    /\ call.fn = "dir_threshold"
    /\ img.h = MaxH /\ img.w = MaxW
    /\ AllEqual(ret.mask, 1)
    /\ \E r \in Rows, c \in Cols : img.px[r][c] # img.px[1][1]

(* C6: on the 4x4 image with columns 1-2 black and columns 3-4 white,      *)
(* abs_threshold with orient 'x' returns 1 exactly on the edge columns and *)
(* mag_threshold with kernel size 3 has those columns set.                 *)
EdgeMask == [r \in 1..4 |-> [c \in 1..4 |-> IF c \in {2, 3} THEN 1 ELSE 0]]

C7_NoDivisionByZero == zerodiv = FALSE

(* C8: whatever the order in which the four classifiers of                 *)
(* combined_threshold run, the five masks are those of the source order,   *)
(* and the input image is left as it was passed.                           *)
C8_OrderIndependent ==
    pc = "done" =>
        /\ img = input
        /\ \A nan \in NanCast :
              /\ abs_thresh = abs_threshold(input, "x", <<20, 100>>, nan).mask
              /\ mag_thresh = mag_threshold(input, <<30, 100>>, nan).mask
        /\ dir_thresh = dir_threshold(input, <<Rad07, Rad13>>).mask
        /\ hls_thresh = hls_threshold(input, <<170, 255>>).mask
        /\ combined_output = combine(abs_thresh, mag_thresh, dir_thresh, hls_thresh)

C8_Witness ==
    /\ pc = "done"
    /\ ~in_source_order
    /\ \E r \in Rows, c \in Cols : abs_thresh[r][c] = 1
    /\ \E r \in Rows, c \in Cols : mag_thresh[r][c] = 1
    /\ \E r \in Rows, c \in Cols : dir_thresh[r][c] = 1
    /\ \E r \in Rows, c \in Cols : hls_thresh[r][c] = 1

(* C9: as written, the combined mask is 1 exactly where the abs-gradient   *)
(* mask or the saturation mask is 1; the magnitude and direction masks     *)
(* have no effect on it.                                                   *)
C9_CombinedIgnoresMagDir ==
    pc = "done" =>
        \A r \in Rows, c \in Cols :
            /\ combined_output[r][c] = 1 <=>
                  (abs_thresh[r][c] = 1 \/ hls_thresh[r][c] = 1)
            /\ \A m \in {0, 1}, d \in {0, 1} :
                  combine_pixel(abs_thresh[r][c], m, d, hls_thresh[r][c])
                     <=> combined_output[r][c] = 1

C9_Witness ==
    /\ pc = "done"
    /\ \E r \in Rows, c \in Cols :
          /\ mag_thresh[r][c] = 1 /\ dir_thresh[r][c] = 1
          /\ abs_thresh[r][c] = 0 /\ hls_thresh[r][c] = 0
          /\ combined_output[r][c] = 0

(* C10: abs_threshold returns a mask only for orient 'x' or 'y'; for any   *)
(* other orient it raises at the rescale step, before any division, and    *)
(* returns nothing.                                                        *)
C10_OtherOrientRaises ==
    Standalone("abs_threshold") =>
        IF call.orient \in {"x", "y"}
        THEN ret.kind = "mask" /\ IsBinaryMask(ret.mask)
        ELSE ret = Raised("UnboundLocalError") /\ ~zerodiv

C10_Witness ==
    /\ Standalone("abs_threshold")
    /\ call.orient = "z"
    /\ ret.kind = "raise" /\ ret.mask = NoMask

=============================================================================
